---- MODULE Spec2Model ----
(***************************************************************************)
(* Retrieval-augmented generation over a private document corpus:          *)
(* the ingestion pipeline (DocumentProcessor), the vector store            *)
(* (VectorStoreManager) and the RAG orchestrator (RAGChain).               *)
(*                                                                         *)
(* Execution is single-threaded and request-scoped: `call` is the record   *)
(* of the call being made or last made on the system.  A streamed query is *)
(* the only call that spans several steps (one per resumption of the       *)
(* generator).                                                             *)
(***************************************************************************)
EXTENDS Integers, Sequences, FiniteSets, TLC

VARIABLES
    files,   \* names of the files present in the documents directory
    contents, \* the content of each of these files
    store,   \* the Chroma collection: documents (metadata mappings) in insertion order
    call,    \* the call in progress or last completed, with its arguments and outcome
    api_key, \* Settings.openai_api_key is configured
    clients, \* per manager, its lazily created backing client and how often it was built
    conversations, \* ConversationManager._conversations: the conversations in memory
    history  \* the contents of the history file conversations.json

vars == <<files, contents, store, call, api_key, clients, conversations, history>>

\* The state of the services that the store, the files and the RAG chain
\* leave alone.
services == <<api_key, clients, conversations, history>>

-----------------------------------------------------------------------------
(* Bounds of the model *)

MaxRecords == 2    \* the collection holds at most this many records
MaxChunks == 2     \* the splitter returns at most this many chunks
MaxFrags == 2      \* the provider streams at most this many non-empty fragments
MaxK == 2          \* largest k a caller supplies
MaxAccesses == 3   \* a manager's backing client is accessed at most this many times
MaxPieces == 5     \* a text given to the cleaner is made of at most this many pieces
MaxSegments == 3   \* get_sources_summary is given at most this many documents
MaxMessages == 2   \* the conversations hold at most this many messages together
MaxCounter == 1    \* _get_unique_path counts at most up to this number

(* Program constants *)

\* RAGChain.MIN_RELEVANCE_SCORE = 0.3, in hundredths
MIN_RELEVANCE_SCORE == 30
\* Settings.retriever_k default
retriever_k == 4
\* process_file: len(cleaned_text) < 50
MIN_CLEANED_LENGTH == 50
\* TextCleaner.__init__: min_line_length: int = 3
MIN_LINE_LENGTH == 3
\* get_sources_summary: doc.page_content[:200]
PREVIEW_LENGTH == 200
\* Conversation._generate_title: content[:50]
TITLE_LENGTH == 50
NO_CONTEXT_MESSAGE == "Je n'ai pas trouve d'information pertinente"

FileNames == {"a.txt", "b.txt"}

\* An absent or empty source_id argument: None and "" are both falsy in
\* `if source_id:`, one value stands for both.
NoSourceId == ""

\* The argument k: Optional[int] is a sequence of at most one integer; the
\* empty one is None (no k supplied).
NoK == <<>>

\* The values of k a caller passes: none, or an integer from 0 to MaxK.
Ks == {NoK} \cup {<<k>> : k \in 0..MaxK}

\* Distances (hundredths) a similarity search may report, around the threshold.
Distances == {MIN_RELEVANCE_SCORE - 1, MIN_RELEVANCE_SCORE, MIN_RELEVANCE_SCORE + 1}

\* Lengths of a cleaned text, around the minimum viable length.
TextLens == {MIN_CLEANED_LENGTH - 1, MIN_CLEANED_LENGTH, MIN_CLEANED_LENGTH + 1}

\* The texts a file may hold, by what the stages of process_file make of them:
\* raw is what extraction yields (the empty string, whitespace only, or some
\* text), cleaned_len the length of the cleaned text, n the number of chunks
\* the splitter cuts it into.  An empty or blank text cleans to nothing.
Texts ==
    {[raw |-> r, cleaned_len |-> 0, n |-> 0] : r \in {"empty", "blank"}}
    \cup {[raw |-> "text", cleaned_len |-> c, n |-> m] :
            c \in TextLens, m \in 0..MaxChunks}

\* Errors raised by the collaborators.
AuthErrors == {"EmbeddingAuthError", "GenerationAuthError"}
BackendErrors == {"EmbeddingBackendError", "GenerationBackendError", "StoreBackendError"}
\* Errors the vector store can raise on a read or a write (embedding included).
StoreFaults == {"EmbeddingAuthError", "EmbeddingBackendError", "StoreBackendError"}
\* Errors the generation client can raise.
LLMFaults == {"GenerationAuthError", "GenerationBackendError"}
\* Errors of the stages of process_file before insertion.
ReadFaults == {"ReadError"}
ExtractFaults == {"DecodeError"}
CleanFaults == {"CleanError"}
SplitFaults == {"SplitError"}
\* Errors of the file system when a file is removed (os.remove).
FileFaults == {"OSError"}

Min(a, b) == IF a <= b THEN a ELSE b

-----------------------------------------------------------------------------
(* Documents *)

\* Document.metadata with the key source_id set to s (doc.metadata["source_id"] = s).
SetSourceId(doc, s) ==
    [key \in DOMAIN doc \cup {"source_id"} |->
        IF key = "source_id" THEN s ELSE doc[key]]

HasSourceId(doc) == "source_id" \in DOMAIN doc

\* SplitText that numbers the chunks from 1 (enumerate(chunks, 1)).
SplitTextOneBased(n, source_name) ==
    [i \in 1..n |->
        [source |-> source_name, chunk_index |-> i, total_chunks |-> n]]

\* DocumentProcessor._split_text: one document per chunk, in order, carrying
\* its source name, its 0-based index and the number of chunks.
SplitText(n, source_name) ==
    [i \in 1..n |->
        [source |-> source_name, chunk_index |-> i - 1, total_chunks |-> n]]

\* StampAll that stamps the first segment only.
StampFirstOnly(documents, source_id) ==
    IF source_id # NoSourceId
    THEN [i \in 1..Len(documents) |->
            IF i = 1 THEN SetSourceId(documents[i], source_id) ELSE documents[i]]
    ELSE documents

\* add_documents, lines 86-88: the stamping of the segments.
StampAll(documents, source_id) ==
    IF source_id # NoSourceId
    THEN [i \in 1..Len(documents) |-> SetSourceId(documents[i], source_id)]
    ELSE documents

-----------------------------------------------------------------------------
(* The caller *)

\* No call is in progress and the outcome of the last one has been taken.
NoCall == [op |-> "none"]

Idle == call = NoCall

\* A streamed query is under way: its generator is running (retrieved) or
\* suspended at a yield (refusing, streaming).
Suspended ==
    /\ call.op = "query_stream"
    /\ call.pc \in {"retrieved", "refusing", "streaming"}

\* The caller takes the outcome of the call (its return value or its error)
\* and is free to make the next one.
Return ==
    /\ ~Idle
    /\ ~Suspended
    /\ call' = NoCall
    /\ UNCHANGED <<files, contents, store, services>>

-----------------------------------------------------------------------------
(* FileHandler *)

\* Settings.allowed_extensions
ALLOWED_EXTENSIONS == {".txt", ".csv", ".html"}

\* The contents of the uploaded files.
FileContents == {"x", "y"}

\* The names under which files are uploaded, validate_file accepting each:
\* their suffix is ".txt" and they hold none of the characters it refuses.
UploadNames == FileNames \cup {"!.txt"}

\* The uploads of the documents view: each file under its own name.
Uploads ==
    {[file_content |-> "x", filename |-> "a.txt"],
     [file_content |-> "y", filename |-> "b.txt"]}

\* FileHandler._compute_hash: the MD5 digest of the content, distinct
\* contents of the model having distinct digests.
ComputeHash(content) == <<"md5", content>>

\* FileHandler._sanitize_filename on the names uploaded: of the stem only the
\* letters, digits, "-", "_" and spaces are kept, so that "!.txt" (stem "!",
\* suffix ".txt") becomes ".txt".
SanitizeFilename(filename) ==
    CASE filename = "a.txt" -> "a.txt"
      [] filename = "b.txt" -> "b.txt"
      [] filename = "!.txt" -> ".txt"

\* f"{base}_{counter}{ext}" of _get_unique_path for the sanitized names, the
\* counter being the position: Path(".txt") has the stem ".txt" and no
\* suffix.
Numbered(safe_name) ==
    CASE safe_name = "a.txt" -> <<"a_1.txt", "a_2.txt", "a_3.txt">>
      [] safe_name = "b.txt" -> <<"b_1.txt", "b_2.txt", "b_3.txt">>
      [] safe_name = ".txt" -> <<".txt_1", ".txt_2", ".txt_3">>

\* file_path.suffix.lower() of a stored file: a name that starts with its
\* only dot has no suffix.
Suffix(name) ==
    IF name \in {".txt"} \cup {Numbered(".txt")[c] : c \in 1..3}
    THEN ""
    ELSE ".txt"

\* The files list_files() returns: those with an allowed extension.
ListedFiles(fs) == {name \in fs : Suffix(name) \in ALLOWED_EXTENSIONS}

\* FileHandler._file_exists_by_hash
FileExistsByHash(fs, cs, file_hash) ==
    \E name \in ListedFiles(fs) : ComputeHash(cs[name]) = file_hash

\* The counter at which the loop of _get_unique_path stops: the first one
\* that gives a name no file has.
FirstFreeCounter(fs, safe_name) ==
    CHOOSE c \in 1..3 :
        /\ Numbered(safe_name)[c] \notin fs
        /\ \A d \in 1..c - 1 : Numbered(safe_name)[d] \in fs

\* FileHandler._get_unique_path
GetUniquePath(fs, safe_name) ==
    IF safe_name \notin fs THEN safe_name
    ELSE Numbered(safe_name)[FirstFreeCounter(fs, safe_name)]

\* FileHandler.save_file(file_content, filename)
save_file(file_content, filename) ==
    LET file_hash == ComputeHash(file_content)
        safe_name == SanitizeFilename(filename)
        file_path == GetUniquePath(files, safe_name)
    IN  /\ Idle
        /\ IF FileExistsByHash(files, contents, file_hash)
           THEN /\ call' = [op |-> "save_file", filename |-> filename,
                            raised |-> "ValueError"]
                /\ UNCHANGED <<files, contents>>
           ELSE /\ \/ safe_name \notin files
                   \/ \E c \in 1..MaxCounter : Numbered(safe_name)[c] \notin files
                /\ files' = files \cup {file_path}
                /\ contents' = [name \in files' |->
                                  IF name = file_path THEN file_content
                                  ELSE contents[name]]
                /\ call' = [op |-> "save_file", filename |-> filename,
                            raised |-> "none",
                            ret |-> [name |-> file_path, hash |-> file_hash]]
        /\ UNCHANGED <<store, services>>

\* FileHandler.delete_file(filename): the files left in the documents
\* directory; a missing file or an error of the file system leaves them all.
DeleteFile(fs, filename, fault) ==
    IF filename \in fs /\ fault = "none" THEN fs \ {filename} ELSE fs

\* FileHandler.list_files(): the files of the documents directory, most
\* recently written first; any order of the names may be that order.
Listings(fs) ==
    LET listed == ListedFiles(fs)
    IN  {p \in [1..Cardinality(listed) -> listed] :
            \A i, j \in 1..Cardinality(listed) : i < j => p[i] # p[j]}

\* FileHandler.delete_file(filename): fault is the error os.remove raises
\* ("none": no error).
delete_file(filename, fault) ==
    /\ Idle
    /\ files' = DeleteFile(files, filename, fault)
    /\ contents' = [name \in files' |-> contents[name]]
    /\ call' = [op |-> "delete_file", filename |-> filename,
                ret |-> (filename \in files /\ fault = "none")]
    /\ UNCHANGED <<store, services>>

-----------------------------------------------------------------------------
(* VectorStoreManager *)

\* MatchingSource on the metadata key `source` in place of `source_id`.
MatchingSourceName(st, s) ==
    {i \in 1..Len(st) : st[i]["source"] = s}

\* The records of `st` whose metadata source_id is s
\* (collection.get(where={"source_id": s})): positions in the collection.
MatchingSource(st, s) ==
    {i \in 1..Len(st) : HasSourceId(st[i]) /\ st[i]["source_id"] = s}

\* The collection without the records at the positions `ids` (collection.delete).
DeleteIds(st, ids) ==
    LET keep(i) == i \notin ids
        F[i \in 0..Len(st)] ==
            IF i = 0 THEN <<>>
            ELSE IF keep(i) THEN Append(F[i - 1], st[i]) ELSE F[i - 1]
    IN F[Len(st)]

\* VectorStoreManager.add_documents(documents, source_id): stamps, then
\* inserts; an error of the store or of the embedding is re-raised, the
\* collection unchanged.
add_documents(documents, source_id, fault) ==
    /\ Idle
    /\ Len(store) + Len(documents) <= MaxRecords
    /\ IF fault = "none"
       THEN /\ store' = store \o StampAll(documents, source_id)
            /\ call' = [op |-> "add_documents", source_id |-> source_id,
                        ret |-> Len(documents), raised |-> "none", fault |-> "none"]
       ELSE /\ store' = store
            /\ call' = [op |-> "add_documents", source_id |-> source_id,
                        ret |-> 0, raised |-> fault, fault |-> fault]
    /\ UNCHANGED <<files, contents, services>>

\* VectorStoreManager.delete_by_source(source_id).
delete_by_source(source_id, fault) ==
    /\ Idle
    /\ IF fault = "none"
       THEN LET ids == MatchingSource(store, source_id)
            IN /\ store' = (IF ids # {} THEN DeleteIds(store, ids) ELSE store)
               /\ call' = [op |-> "delete_by_source", source_id |-> source_id,
                           ret |-> (ids # {}), raised |-> "none", fault |-> "none"]
       ELSE /\ store' = store
            /\ call' = [op |-> "delete_by_source", source_id |-> source_id,
                        ret |-> FALSE, raised |-> fault, fault |-> fault]
    /\ UNCHANGED <<files, contents, services>>

\* clear that reports, as delete_by_source does, whether it deleted something.
clearReportingDeleted(fault) ==
    /\ Idle
    /\ IF fault = "none"
       THEN /\ store' = <<>>
            /\ call' = [op |-> "clear", ret |-> (store # <<>>), deleted |-> Len(store),
                        raised |-> "none", fault |-> "none"]
       ELSE /\ store' = store
            /\ call' = [op |-> "clear", ret |-> FALSE, deleted |-> 0,
                        raised |-> "none", fault |-> fault]
    /\ UNCHANGED <<files, contents, services>>

\* VectorStoreManager.clear(): deletes every record (`deleted` of them:
\* len(results["ids"])); an error is swallowed and reported as False.
clear(fault) ==
    /\ Idle
    /\ IF fault = "none"
       THEN /\ store' = <<>>
            /\ call' = [op |-> "clear", ret |-> TRUE, deleted |-> Len(store),
                        raised |-> "none", fault |-> "none"]
       ELSE /\ store' = store
            /\ call' = [op |-> "clear", ret |-> FALSE, deleted |-> 0,
                        raised |-> "none", fault |-> fault]
    /\ UNCHANGED <<files, contents, services>>

\* sorted(...) on source identifiers: the names in ascending order.
SortedNames == <<"a.txt", "b.txt">>

\* get_all_sources that keeps one entry per record (a list in place of the set).
SourcesPerRecord(st) ==
    LET stamped == SelectSeq(st, HasSourceId)
    IN  [i \in 1..Len(stamped) |-> stamped[i]["source_id"]]

\* Lines 208-215 of get_all_sources: the distinct source_id of the records
\* that have one, sorted.
DistinctSources(st) ==
    LET sources == {st[i]["source_id"] : i \in {j \in 1..Len(st) : HasSourceId(st[j])}}
    IN  SelectSeq(SortedNames, LAMBDA s : s \in sources)

\* VectorStoreManager.get_all_sources(): an error is swallowed and an empty
\* list returned.
get_all_sources(fault) ==
    /\ Idle
    /\ call' = [op |-> "get_all_sources",
                ret |-> IF fault = "none" THEN DistinctSources(store) ELSE <<>>,
                raised |-> "none", fault |-> fault]
    /\ UNCHANGED <<files, contents, store, services>>

\* get_document_count's result: collection.count(), 0 when it raises.
DocumentCount(st, fault) == IF fault = "none" THEN Len(st) ELSE 0

\* VectorStoreManager.get_document_count().
get_document_count(fault) ==
    /\ Idle
    /\ call' = [op |-> "get_document_count", ret |-> DocumentCount(store, fault),
                raised |-> "none", fault |-> fault]
    /\ UNCHANGED <<files, contents, store, services>>

-----------------------------------------------------------------------------
(* DocumentProcessor *)

\* A ProcessingResult.
ProcessingResult(success, source_id, chunks_count, message) ==
    [success |-> success, source_id |-> source_id,
     chunks_count |-> chunks_count, message |-> message]

\* The exception, if any, that interrupts process_file(name) given the text
\* the stages produce: the file cannot be read (get_file_content returns None
\* for a missing file, _extract_text raises), or the stage reached raises
\* `fault`.  Stages after a failed gate are not run and cannot raise.
ProcessFault(name, fault, raw, cleaned_len, n) ==
    IF name \notin files THEN "UnreadableSourceError"
    ELSE IF fault \in ReadFaults \cup ExtractFaults THEN fault
    ELSE IF raw # "text" THEN "none"
    ELSE IF fault \in CleanFaults THEN fault
    ELSE IF cleaned_len < MIN_CLEANED_LENGTH THEN "none"
    ELSE IF fault \in SplitFaults THEN fault
    ELSE IF n = 0 THEN "none"
    ELSE IF fault \in StoreFaults THEN fault
    ELSE "none"

\* ProcessGate with the comparison `<=` in place of `<` at the length gate.
ProcessGateInclusive(raw, cleaned_len, n) ==
    IF raw # "text" THEN "empty"
    ELSE IF cleaned_len <= MIN_CLEANED_LENGTH THEN "too_short"
    ELSE IF n = 0 THEN "no_chunks"
    ELSE "passed"

\* The gate, if any, at which process_file returns a failure outcome.
ProcessGate(raw, cleaned_len, n) ==
    IF raw # "text" THEN "empty"
    ELSE IF cleaned_len < MIN_CLEANED_LENGTH THEN "too_short"
    ELSE IF n = 0 THEN "no_chunks"
    ELSE "passed"

\* ProcessCall with a handler that logs and re-raises, as the handlers of the
\* vector store do.
ProcessCallReraising(name, text, raised, gate) ==
    [op |-> "process_file", name |-> name, text |-> text,
     ret |-> IF raised # "none" \/ gate # "passed"
             THEN [success |-> FALSE, source_id |-> name, chunks_count |-> 0,
                   message |-> IF raised # "none" THEN "error" ELSE gate]
             ELSE [success |-> TRUE, source_id |-> name, chunks_count |-> text.n,
                   message |-> "indexed"],
     raised |-> raised, fault |-> raised]

\* What process_file(name) returns to its caller: the failure outcome of the
\* `except Exception` handler when a stage raised, the failure outcome of the
\* gate that fails, else the success outcome.  `raised` is the exception that
\* interrupted the stages, `gate` the gate reached.
ProcessCall(name, text, raised, gate) ==
    [op |-> "process_file", name |-> name, text |-> text,
     ret |-> IF raised # "none" THEN ProcessingResult(FALSE, name, 0, "error")
             ELSE IF gate # "passed" THEN ProcessingResult(FALSE, name, 0, gate)
             ELSE ProcessingResult(TRUE, name, text.n, "indexed"),
     raised |-> "none", fault |-> raised]

\* DocumentProcessor._split_text(text, source_name) called on a text that the
\* splitter cuts into n chunks.
split_text(n, source_name) ==
    /\ Idle
    /\ call' = [op |-> "_split_text", source_name |-> source_name,
                chunks |-> n, ret |-> SplitText(n, source_name)]
    /\ UNCHANGED <<files, contents, store, services>>

\* DocumentProcessor.process_file(file_info), file_info.name = name.  The text
\* read from the file is `raw`, its cleaned form has cleaned_len characters
\* and the splitter cuts it into n chunks; `fault` is the error a stage raises
\* when it is reached ("none": no stage raises).
process_file(name, fault, raw, cleaned_len, n) ==
    LET raised == ProcessFault(name, fault, raw, cleaned_len, n)
        gate == ProcessGate(raw, cleaned_len, n)
        text == [raw |-> raw, cleaned_len |-> cleaned_len, n |-> n]
        inserts == raised = "none" /\ gate = "passed"
    IN  /\ Idle
        /\ inserts => Len(store) + n <= MaxRecords
        /\ store' = IF inserts
                    THEN store \o StampAll(SplitText(n, name), name)
                    ELSE store
        /\ call' = ProcessCall(name, text, raised, gate)
        /\ UNCHANGED <<files, contents, services>>

\* RemoveOutcome that removes the file before the records.
RemoveOutcomeFileFirst(st, fs, source_id, store_fault, file_fault) ==
    IF store_fault # "none"
    THEN [store |-> st, files |-> DeleteFile(fs, source_id, file_fault),
          ret |-> FALSE, delete_file_calls |-> 1]
    ELSE [store |-> DeleteIds(st, MatchingSource(st, source_id)),
          files |-> DeleteFile(fs, source_id, file_fault),
          ret |-> TRUE, delete_file_calls |-> 1]

\* RemoveOutcome that leaves the records in the store.
RemoveOutcomeKeepingRecords(st, fs, source_id, store_fault, file_fault) ==
    IF store_fault # "none"
    THEN [store |-> st, files |-> fs, ret |-> FALSE, delete_file_calls |-> 0]
    ELSE [store |-> st, files |-> DeleteFile(fs, source_id, file_fault),
          ret |-> TRUE, delete_file_calls |-> 1]

\* Lines 173-185 of remove_document: delete_by_source, then delete_file whose
\* result is not looked at, then True; an exception of delete_by_source ends
\* the call with False before delete_file.
RemoveOutcome(st, fs, source_id, store_fault, file_fault) ==
    IF store_fault # "none"
    THEN [store |-> st, files |-> fs, ret |-> FALSE, delete_file_calls |-> 0]
    ELSE [store |-> DeleteIds(st, MatchingSource(st, source_id)),
          files |-> DeleteFile(fs, source_id, file_fault),
          ret |-> TRUE, delete_file_calls |-> 1]

\* DocumentProcessor.remove_document(source_id): store_fault is the error
\* delete_by_source raises, file_fault the one os.remove raises inside
\* delete_file ("none": no error).
remove_document(source_id, store_fault, file_fault) ==
    LET out == RemoveOutcome(store, files, source_id, store_fault, file_fault)
    IN  /\ Idle
        /\ store' = out.store
        /\ files' = out.files
        /\ contents' = [name \in files' |-> contents[name]]
        /\ call' = [op |-> "remove_document", source_id |-> source_id,
                    ret |-> out.ret, raised |-> "none",
                    fault |-> store_fault, file_fault |-> file_fault,
                    delete_file_calls |-> out.delete_file_calls]
        /\ UNCHANGED services

\* The documents one turn of the loop of reindex_all inserts: those of
\* process_file(name) on the run `run`.
RunInserts(name, run) ==
    IF /\ ProcessFault(name, run.fault, run.raw, run.cleaned_len, run.n) = "none"
       /\ ProcessGate(run.raw, run.cleaned_len, run.n) = "passed"
    THEN StampAll(SplitText(run.n, name), name)
    ELSE <<>>

\* The outcome process_file(name) returns on the run `run`.
RunResult(name, run) ==
    ProcessCall(name,
                [raw |-> run.raw, cleaned_len |-> run.cleaned_len, n |-> run.n],
                ProcessFault(name, run.fault, run.raw, run.cleaned_len, run.n),
                ProcessGate(run.raw, run.cleaned_len, run.n)).ret

\* The records the loop of reindex_all inserts, file after file.
ReindexInserted(listing, runs) ==
    LET F[i \in 0..Len(listing)] ==
            IF i = 0 THEN <<>> ELSE F[i - 1] \o RunInserts(listing[i], runs[i])
    IN  F[Len(listing)]

\* ReindexResults of a loop that stops at the first file that fails.
ReindexResultsUntilFailure(listing, runs) ==
    LET all == [i \in 1..Len(listing) |-> RunResult(listing[i], runs[i])]
        failed == {i \in 1..Len(all) : ~all[i].success}
        last == IF failed = {} THEN Len(all)
                ELSE CHOOSE i \in failed : \A j \in failed : i <= j
    IN  SubSeq(all, 1, last)

\* Lines 352-359 of reindex_all: one outcome per file listed, in order.
ReindexResults(listing, runs) ==
    [i \in 1..Len(listing) |-> RunResult(listing[i], runs[i])]

\* DocumentProcessor.reindex_all(): clear() (its result is not looked at),
\* list_files(), then process_file on every file listed.  clear_fault is the
\* error the store raises inside clear, runs[i] what the stages of
\* process_file do on the i-th file.
reindex_all(clear_fault, listing, runs) ==
    LET cleared == IF clear_fault = "none" THEN <<>> ELSE store
        inserted == ReindexInserted(listing, runs)
    IN  /\ Idle
        /\ Len(cleared) + Len(inserted) <= MaxRecords
        /\ store' = cleared \o inserted
        /\ call' = [op |-> "reindex_all", ret |-> ReindexResults(listing, runs),
                    listing |-> listing, runs |-> runs, raised |-> "none",
                    clear_ret |-> (clear_fault = "none"), fault |-> clear_fault]
        /\ UNCHANGED <<files, contents, services>>

-----------------------------------------------------------------------------
(* VectorStoreManager.search_with_scores *)

\* `k or self.settings.retriever_k`
KOrDefault(k) == IF k = NoK \/ k[1] = 0 THEN retriever_k ELSE k[1]

\* The result lists a similarity search for k neighbours may return on the
\* collection `st`: min(k, count) distinct records, each with its distance
\* to the query, in ascending order of distance.  The distances depend on
\* the query and on the embedding model: every assignment is possible.
SearchResults(st, k) ==
    LET m == Min(k, Len(st))
        picks == {p \in [1..m -> 1..Len(st)] :
                    \A i, j \in 1..m : i < j => p[i] # p[j]}
        scores == {d \in [1..m -> Distances] :
                    \A i \in 1..m - 1 : d[i] <= d[i + 1]}
    IN  {[i \in 1..m |-> [doc |-> st[p[i]], score |-> d[i]]] :
            p \in picks, d \in scores}

-----------------------------------------------------------------------------
(* LLMClient *)

\* The i-th non-empty fragment of the provider's answer.
ProviderScript == <<"a", "b", "c", "d">>

\* "".join(tokens)
RECURSIVE JoinTokens(_)
JoinTokens(tokens) ==
    IF tokens = <<>> THEN "" ELSE tokens[1] \o JoinTokens(Tail(tokens))

\* The answers LLMClient.invoke may return.
Answers == {JoinTokens(SubSeq(ProviderScript, 1, i)) : i \in 0..MaxFrags}

\* LLMClient.stream, lines 130-132: of the chunks the provider sends, those
\* with a content are yielded.
StreamedContents(chunks) == SelectSeq(chunks, LAMBDA c : c # "")

\* What the provider sends until LLMClient.stream yields again or ends: any
\* number (here 0 or 1) of chunks without content, then the next fragment
\* (ending = FALSE) or nothing more (ending = TRUE).
ProviderChunks(sent, empties, ending) ==
    [i \in 1..empties |-> ""]
        \o (IF ending THEN <<>> ELSE <<ProviderScript[sent + 1]>>)

-----------------------------------------------------------------------------
(* RAGChain *)

RAGResponse(answer, sources, has_context) ==
    [answer |-> answer, sources |-> sources, has_context |-> has_context]

\* The value of `response` while none has been returned.
NoResponse == RAGResponse("", <<>>, FALSE)

\* RelevantByScore with the comparison `<` in place of `<=`.
RelevantByScoreStrict(results) ==
    LET kept == SelectSeq(results, LAMBDA r : r.score < MIN_RELEVANCE_SCORE)
    IN  [i \in 1..Len(kept) |-> kept[i].doc]

\* Lines 86-89: the documents whose score is within the threshold.
RelevantByScore(results) ==
    LET kept == SelectSeq(results, LAMBDA r : r.score <= MIN_RELEVANCE_SCORE)
    IN  [i \in 1..Len(kept) |-> kept[i].doc]

\* WithFallback without the fallback: nothing relevant, nothing used.
WithoutFallback(relevant_docs, results, k) == relevant_docs

\* Lines 92-93: with no relevant document, the best results are used anyway.
WithFallback(relevant_docs, results, k) ==
    IF relevant_docs = <<>> /\ results # <<>>
    THEN [i \in 1..Min(k, Len(results)) |-> results[i].doc]
    ELSE relevant_docs

\* Lines 79-93, common to query and query_stream.
SelectDocs(results, k) == WithFallback(RelevantByScore(results), results, k)

\* The record of a RAG call.
RagCall(op, pc, k, results, relevant_docs) ==
    [op |-> op, pc |-> pc, k |-> k, k_used |-> KOrDefault(k),
     results |-> results, relevant_docs |-> relevant_docs,
     produced |-> <<>>, full_response |-> <<>>, yielded |-> <<>>,
     invoke_calls |-> 0, stream_calls |-> 0,
     response |-> NoResponse, fault |-> "none", raised |-> "none"]

\* Raise with a handler that answers with the refusal instead of re-raising.
RaiseSwallowed(c, fault) ==
    [c EXCEPT !.pc = "done", !.fault = fault,
              !.response = [answer |-> NO_CONTEXT_MESSAGE, sources |-> <<>>,
                            has_context |-> FALSE]]

\* `except Exception as e: ...; raise`: the error leaves the call as it is.
Raise(c, fault) == [c EXCEPT !.pc = "failed", !.fault = fault, !.raised = fault]

\* Answer that returns every result of the search as source.
AnswerWithAllResults(c, llm_fault, answer) ==
    IF c.relevant_docs = <<>>
    THEN [c EXCEPT !.pc = "done",
                   !.response = [answer |-> NO_CONTEXT_MESSAGE, sources |-> <<>>,
                                 has_context |-> FALSE]]
    ELSE IF llm_fault # "none"
    THEN [c EXCEPT !.pc = "failed", !.invoke_calls = @ + 1,
                   !.fault = llm_fault, !.raised = llm_fault]
    ELSE [c EXCEPT !.pc = "done", !.invoke_calls = @ + 1,
                   !.response = [answer |-> answer,
                                 sources |-> [i \in 1..Len(c.results) |->
                                                c.results[i].doc],
                                 has_context |-> TRUE]]

\* Answer without the test `if not relevant_docs`: the generation is called
\* whatever was found.
AnswerWithoutRefusal(c, llm_fault, answer) ==
    IF llm_fault # "none"
    THEN [c EXCEPT !.pc = "failed", !.invoke_calls = @ + 1,
                   !.fault = llm_fault, !.raised = llm_fault]
    ELSE [c EXCEPT !.pc = "done", !.invoke_calls = @ + 1,
                   !.response = [answer |-> answer, sources |-> c.relevant_docs,
                                 has_context |-> TRUE]]

\* Lines 96-120 of query: the refusal without context, else the generation.
Answer(c, llm_fault, answer) ==
    IF c.relevant_docs = <<>>
    THEN [c EXCEPT !.pc = "done",
                   !.response = RAGResponse(NO_CONTEXT_MESSAGE, <<>>, FALSE)]
    ELSE IF llm_fault # "none"
    THEN Raise([c EXCEPT !.invoke_calls = @ + 1], llm_fault)
    ELSE [c EXCEPT !.pc = "done", !.invoke_calls = @ + 1,
                   !.response = RAGResponse(answer, c.relevant_docs, TRUE)]

\* Lines 79-120 of query once the search has returned `results`: the call
\* as it ends.
QueryOutcome(k, results, llm_fault, answer) ==
    Answer(RagCall("query", "retrieved", k, results,
                   SelectDocs(results, KOrDefault(k))),
           llm_fault, answer)

\* RAGChain.query(question, k): search_fault is the error the search raises
\* ("none": it returns), llm_fault the error the generation raises, answer
\* the text it returns.
query(k, search_fault, llm_fault, answer) ==
    /\ Idle
    /\ IF search_fault # "none"
       THEN call' = Raise(RagCall("query", "start", k, <<>>, <<>>), search_fault)
       ELSE \E results \in SearchResults(store, KOrDefault(k)) :
                call' = QueryOutcome(k, results, llm_fault, answer)
    /\ UNCHANGED <<files, contents, store, services>>

\* RAGChain.query_stream(question, k), first resumption, lines 146-158: the
\* retrieval and the choice of the documents.
query_stream(k, search_fault) ==
    /\ Idle
    /\ IF search_fault # "none"
       THEN call' = Raise(RagCall("query_stream", "start", k, <<>>, <<>>),
                          search_fault)
       ELSE \E results \in SearchResults(store, KOrDefault(k)) :
                call' = RagCall("query_stream", "retrieved", k, results,
                                SelectDocs(results, KOrDefault(k)))
    /\ UNCHANGED <<files, contents, store, services>>

\* Lines 160-161: without context the refusal is the only fragment.
YieldRefusal(c) ==
    [c EXCEPT !.pc = "refusing", !.yielded = Append(@, NO_CONTEXT_MESSAGE)]

\* ReturnRefusal that reports a context.
ReturnRefusalWithContext(c) ==
    [c EXCEPT !.pc = "done",
              !.response = [answer |-> NO_CONTEXT_MESSAGE, sources |-> <<>>,
                            has_context |-> TRUE]]

\* Lines 162-166: the return that follows the refusal.
ReturnRefusal(c) ==
    [c EXCEPT !.pc = "done",
              !.response = RAGResponse(NO_CONTEXT_MESSAGE, <<>>, FALSE)]

\* PullToken without `full_response.append(token)`.
PullTokenUnrecorded(c, chunks, ending, llm_fault) ==
    LET tokens == SelectSeq(chunks, LAMBDA x : x # "")
    IN  IF llm_fault # "none"
        THEN [c EXCEPT !.pc = "failed", !.fault = llm_fault, !.raised = llm_fault]
        ELSE IF ending
        THEN [c EXCEPT !.pc = "done",
                       !.response = [answer |-> "", sources |-> c.relevant_docs,
                                     has_context |-> TRUE]]
        ELSE [c EXCEPT !.pc = "streaming",
                       !.produced = @ \o tokens,
                       !.yielded = @ \o tokens]

\* PullToken on a stream read one fragment ahead of the caller.
PullTokenAhead(c, chunks, ending, llm_fault) ==
    LET tokens == SelectSeq(chunks, LAMBDA x : x # "")
    IN  IF llm_fault # "none"
        THEN [c EXCEPT !.pc = "failed", !.fault = llm_fault, !.raised = llm_fault]
        ELSE IF ending
        THEN [c EXCEPT !.pc = "done",
                       !.response = [answer |-> JoinTokens(c.full_response),
                                     sources |-> c.relevant_docs,
                                     has_context |-> TRUE]]
        ELSE [c EXCEPT !.pc = "streaming",
                       !.produced = @ \o tokens \o <<"ahead">>,
                       !.full_response = @ \o tokens,
                       !.yielded = @ \o tokens]

\* Lines 176-178: one turn of `for token in self.llm.stream(prompt)`; the
\* generator is advanced once, a fragment it yields is appended to
\* full_response and yielded to the caller.
\* Lines 180-184: when the generator ends, the response is returned.
PullToken(c, chunks, ending, llm_fault) ==
    LET tokens == StreamedContents(chunks)
    IN  IF llm_fault # "none" THEN Raise(c, llm_fault)
        ELSE IF ending
        THEN [c EXCEPT !.pc = "done",
                       !.response = RAGResponse(JoinTokens(c.full_response),
                                                c.relevant_docs, TRUE)]
        ELSE [c EXCEPT !.pc = "streaming",
                       !.produced = @ \o tokens,
                       !.full_response = @ \o tokens,
                       !.yielded = @ \o tokens]

\* The generator is closed at the yield where it is suspended: GeneratorExit
\* is not an Exception, `except Exception` (line 186) lets it through and the
\* generator ends without a response.
Close(c) == [c EXCEPT !.pc = "closed"]

\* The caller stops consuming the fragments of query_stream: the generator,
\* suspended at a yield, is closed (generator.close(), or its collection).
query_stream_close ==
    /\ call.op = "query_stream"
    /\ call.pc \in {"refusing", "streaming"}
    /\ call' = Close(call)
    /\ UNCHANGED <<files, contents, store, services>>

\* IsReady with the comparison `>=` in place of `>`.
IsReadyNonNegative(st, fault) == DocumentCount(st, fault) >= 0

\* Line 246: self.vectorstore.get_document_count() > 0
IsReady(st, fault) == DocumentCount(st, fault) > 0

\* RAGChain.is_ready(); `fault` is the error the count of the collection
\* raises ("none": it returns).
is_ready(fault) ==
    /\ Idle
    /\ call' = [op |-> "is_ready", ret |-> IsReady(store, fault),
                raised |-> "none", fault |-> fault]
    /\ UNCHANGED <<files, contents, store, services>>

\* One resumption of the generator query_stream by its caller (next()).
query_stream_next(empties, ending, llm_fault) ==
    /\ call.op = "query_stream"
    /\ call.pc \in {"retrieved", "refusing", "streaming"}
    /\ ending \/ llm_fault # "none" \/ Len(call.produced) < MaxFrags
    /\ call' =
         IF call.pc = "refusing" THEN ReturnRefusal(call)
         ELSE IF call.pc = "retrieved" /\ call.relevant_docs = <<>>
         THEN YieldRefusal(call)
         ELSE PullToken(
                [call EXCEPT !.stream_calls =
                                IF call.pc = "retrieved" THEN @ + 1 ELSE @],
                ProviderChunks(Len(call.produced), empties, ending),
                ending, llm_fault)
    /\ UNCHANGED <<files, contents, store, services>>

-----------------------------------------------------------------------------
(* TextCleaner.  A text is a sequence of characters. *)

\* \s of the regular expressions, among the characters of the texts.
IsSpace(c) == c \in {" ", "\n"}

\* text.strip()
Strip(text) ==
    LET solid == {i \in 1..Len(text) : ~IsSpace(text[i])}
    IN  IF solid = {} THEN <<>>
        ELSE SubSeq(text, CHOOSE i \in solid : \A j \in solid : i <= j,
                          CHOOSE i \in solid : \A j \in solid : i >= j)

\* MULTIPLE_SPACES.sub(" ", text) with MULTIPLE_SPACES = \s+ : every maximal
\* run of whitespace, newlines included, becomes one space.
CollapseSpaces(text) ==
    LET F[i \in 0..Len(text)] ==
            IF i = 0 THEN <<>>
            ELSE IF ~IsSpace(text[i]) THEN Append(F[i - 1], text[i])
            ELSE IF i > 1 /\ IsSpace(text[i - 1]) THEN F[i - 1]
            ELSE Append(F[i - 1], " ")
    IN  F[Len(text)]

\* The number of consecutive newlines of `text` that end at position i.
NewlinesUpTo(text, i) ==
    LET F[j \in 0..Len(text)] ==
            IF j = 0 THEN 0
            ELSE IF text[j] = "\n" THEN F[j - 1] + 1 ELSE 0
    IN  F[i]

\* MULTIPLE_NEWLINES.sub("\n\n", text) with MULTIPLE_NEWLINES = \n{3,} :
\* of every run of three newlines or more, two are left.
LimitNewlines(text) ==
    LET keep == {i \in 1..Len(text) : NewlinesUpTo(text, i) <= 2}
        F[i \in 0..Len(text)] ==
            IF i = 0 THEN <<>>
            ELSE IF i \in keep THEN Append(F[i - 1], text[i]) ELSE F[i - 1]
    IN  F[Len(text)]

\* TextCleaner._normalize_whitespace
NormalizeWhitespace(text) == LimitNewlines(CollapseSpaces(text))

\* text.split("\n")
RECURSIVE SplitLines(_)
SplitLines(text) ==
    LET breaks == {i \in 1..Len(text) : text[i] = "\n"}
    IN  IF breaks = {} THEN <<text>>
        ELSE LET first == CHOOSE i \in breaks : \A j \in breaks : i <= j
             IN  <<SubSeq(text, 1, first - 1)>>
                    \o SplitLines(SubSeq(text, first + 1, Len(text)))

\* "\n".join(lines)
RECURSIVE JoinLines(_)
JoinLines(lines) ==
    IF lines = <<>> THEN <<>>
    ELSE IF Len(lines) = 1 THEN lines[1]
    ELSE lines[1] \o <<"\n">> \o JoinLines(Tail(lines))

\* TextCleaner._filter_short_lines: the lines shorter than min_line_length
\* are dropped, the blank ones kept.
FilterShortLines(text) ==
    JoinLines(SelectSeq(SplitLines(text),
                        LAMBDA line : \/ Len(Strip(line)) >= MIN_LINE_LENGTH
                                      \/ Strip(line) = <<>>))

\* TextCleaner.clean with the default options, on a text without URL, e-mail
\* address or decomposed character.
Clean(text) ==
    IF text = <<>> THEN <<>>
    ELSE Strip(FilterShortLines(NormalizeWhitespace(text)))

\* The pieces the texts given to the cleaner are made of: a word that makes a
\* line long enough to be kept, a shorter one, a space and a newline.
CleanerPieces == {<<"a", "a", "a">>, <<"a">>, <<" ">>, <<"\n">>}

RECURSIVE Flatten(_)
Flatten(pieces) ==
    IF pieces = <<>> THEN <<>> ELSE pieces[1] \o Flatten(Tail(pieces))

CleanerTexts ==
    {Flatten(p) : p \in UNION {[1..n -> CleanerPieces] : n \in 0..MaxPieces}}

\* TextCleaner.clean(text)
clean(text) ==
    /\ Idle
    /\ call' = [op |-> "clean", text |-> text, ret |-> Clean(text)]
    /\ UNCHANGED <<files, contents, store, services>>

-----------------------------------------------------------------------------
(* RAGChain.get_sources_summary.  A page content is a text of which the     *)
(* length is known: [text, len].                                            *)

PageContents ==
    {[text |-> "p", len |-> PREVIEW_LENGTH - 1],
     [text |-> "q", len |-> PREVIEW_LENGTH],
     [text |-> "r", len |-> PREVIEW_LENGTH + 1]}

\* The documents a summary is asked of: with or without source_id.
SummaryDocs ==
    {[source_id |-> s, page_content |-> c] : s \in FileNames, c \in PageContents}
    \cup {[page_content |-> c] : c \in PageContents}

\* Preview that marks as cut a content of exactly 200 characters.
PreviewInclusive(page_content) ==
    IF page_content.len >= PREVIEW_LENGTH
    THEN [of |-> page_content.text, len |-> PREVIEW_LENGTH, suffix |-> "..."]
    ELSE [of |-> page_content.text, len |-> page_content.len, suffix |-> ""]

\* Lines 231-233: page_content[:200] + "..." if len(page_content) > 200 else
\* page_content.  The preview is the first `len` characters of the text
\* `of`, followed by `suffix`.
Preview(page_content) ==
    IF page_content.len > PREVIEW_LENGTH
    THEN [of |-> page_content.text, len |-> PREVIEW_LENGTH, suffix |-> "..."]
    ELSE [of |-> page_content.text, len |-> page_content.len, suffix |-> ""]

\* doc.metadata.get("source_id", "Inconnu")
SourceIdOrUnknown(doc) ==
    IF "source_id" \in DOMAIN doc THEN doc["source_id"] ELSE "Inconnu"

\* Lines 222-237: the loop of get_sources_summary.
SourcesSummary(documents) ==
    LET F[i \in 0..Len(documents)] ==
            IF i = 0 THEN <<>>
            ELSE LET source_id == SourceIdOrUnknown(documents[i])
                     seen == {F[i - 1][j].name : j \in 1..Len(F[i - 1])}
                 IN  IF source_id \notin seen
                     THEN Append(F[i - 1],
                                 [name |-> source_id,
                                  preview |-> Preview(documents[i].page_content)])
                     ELSE F[i - 1]
    IN  F[Len(documents)]

\* RAGChain.get_sources_summary(documents)
get_sources_summary(documents) ==
    /\ Idle
    /\ call' = [op |-> "get_sources_summary", documents |-> documents,
                ret |-> SourcesSummary(documents)]
    /\ UNCHANGED <<files, contents, store, services>>

-----------------------------------------------------------------------------
(* Conversation and ConversationManager.  A conversation is a record [id,   *)
(* title, messages], a message a record [role, content, sources]; the       *)
(* timestamps are left out.  The manager's dictionary is the sequence of    *)
(* its values in insertion order.                                           *)

\* The values uuid.uuid4() gives to the conversations.
ConversationIds == {"c1", "c2"}

Roles == {"user", "assistant"}

\* A text of n letters.
Letters(n) == [i \in 1..n |-> "a"]

\* What the user writes: a short question, one of exactly 50 characters and
\* one of 51.
UserContents == {Letters(3), Letters(TITLE_LENGTH), Letters(TITLE_LENGTH + 1)}

\* What the assistant answers.
AssistantContents == {Letters(2)}

\* The `sources` given to add_message: none, or the name of one file.
SourceLists == {<<>>, <<"a.txt">>}

\* title: str = "Nouvelle conversation", kept as one piece of text.
DEFAULT_TITLE == <<"Nouvelle conversation">>

\* Conversation()
NewConversation(id) == [id |-> id, title |-> DEFAULT_TITLE, messages |-> <<>>]

\* Conversation._generate_title
GenerateTitle(content) ==
    LET title == Strip(SubSeq(content, 1, Min(TITLE_LENGTH, Len(content))))
    IN  IF Len(content) > TITLE_LENGTH THEN title \o <<".", ".", ".">> ELSE title

\* Conversation.add_message
AddMessage(conversation, role, content, sources) ==
    LET messages == Append(conversation.messages,
                           [role |-> role, content |-> content, sources |-> sources])
    IN  [conversation EXCEPT
            !.messages = messages,
            !.title = IF role = "user" /\ Len(messages) = 1
                      THEN GenerateTitle(content) ELSE @]

\* Conversation.to_dict without its sources: what a dump that forgot them
\* would write.
ToDictWithoutSources(conversation) ==
    [id |-> conversation.id,
     title |-> conversation.title,
     messages |-> [i \in 1..Len(conversation.messages) |->
                     [role |-> conversation.messages[i].role,
                      content |-> conversation.messages[i].content,
                      sources |-> <<>>]]]

\* Conversation.to_dict: the dictionary json.dump writes.
ToDict(conversation) ==
    [id |-> conversation.id,
     title |-> conversation.title,
     messages |-> [i \in 1..Len(conversation.messages) |->
                     [role |-> conversation.messages[i].role,
                      content |-> conversation.messages[i].content,
                      sources |-> conversation.messages[i].sources]]]

\* Conversation.from_dict, on a dictionary json.load has read.
FromDict(data) ==
    [id |-> data.id,
     title |-> IF "title" \in DOMAIN data THEN data.title ELSE <<"Conversation">>,
     messages |-> IF "messages" \in DOMAIN data
                  THEN [i \in 1..Len(data.messages) |->
                          [role |-> data.messages[i].role,
                           content |-> data.messages[i].content,
                           sources |-> data.messages[i].sources]]
                  ELSE <<>>]

\* The history file: absent, written whole, or left partial by a write that
\* failed after the file was opened (and truncated).
NoHistoryFile == [state |-> "absent"]
PartialHistoryFile == [state |-> "partial"]

\* What can go wrong in _save_history: open() raises, or json.dump raises
\* after open() has truncated the file.
SaveFaults == {"OpenError", "DumpError"}

\* ConversationManager._save_history: every exception is caught and logged.
SaveHistory(convs, file, fault) ==
    IF fault = "OpenError" THEN file
    ELSE IF fault = "DumpError" THEN PartialHistoryFile
    ELSE [state |-> "written",
          data |-> [conversations |-> [i \in 1..Len(convs) |-> ToDict(convs[i])]]]

\* The dictionary after self._conversations[conversation.id] = conversation.
Put(convs, conversation) ==
    IF \E i \in 1..Len(convs) : convs[i].id = conversation.id
    THEN [i \in 1..Len(convs) |->
            IF convs[i].id = conversation.id THEN conversation ELSE convs[i]]
    ELSE Append(convs, conversation)

\* ConversationManager._load_history: nothing is loaded from a file that is
\* absent or that json.load cannot read.
LoadHistory(file) ==
    IF file.state # "written" THEN <<>>
    ELSE LET listed == file.data.conversations
             F[i \in 0..Len(listed)] ==
                IF i = 0 THEN <<>> ELSE Put(F[i - 1], FromDict(listed[i]))
         IN  F[Len(listed)]

\* The ids of the conversations in memory.
KnownIds == {conversations[i].id : i \in 1..Len(conversations)}

\* self._conversations.get(conversation_id), for a known id.
Get(convs, id) == convs[CHOOSE i \in 1..Len(convs) : convs[i].id = id]

\* The number of messages of all the conversations.
RECURSIVE CountMessages(_)
CountMessages(convs) ==
    IF convs = <<>> THEN 0
    ELSE Len(convs[1].messages) + CountMessages(Tail(convs))

\* ConversationManager(): a manager constructed on the history file.
ConversationManager ==
    /\ Idle
    /\ conversations' = LoadHistory(history)
    /\ call' = [op |-> "ConversationManager"]
    /\ UNCHANGED <<files, contents, store, api_key, clients, history>>

\* ConversationManager.create_conversation(), the new conversation having
\* the identifier `id`.
create_conversation(id, fault) ==
    /\ Idle
    /\ id \notin KnownIds
    /\ conversations' = Put(conversations, NewConversation(id))
    /\ history' = SaveHistory(conversations', history, fault)
    /\ call' = [op |-> "create_conversation", ret |-> id, save |-> fault]
    /\ UNCHANGED <<files, contents, store, api_key, clients>>

\* ConversationManager.add_message(conversation_id, role, content, sources)
add_message(conversation_id, role, content, sources, fault) ==
    /\ Idle
    /\ IF conversation_id \notin KnownIds
       THEN /\ call' = [op |-> "add_message", ret |-> FALSE, save |-> "skipped"]
            /\ UNCHANGED <<conversations, history>>
       ELSE /\ CountMessages(conversations) < MaxMessages
            /\ conversations' =
                 Put(conversations,
                     AddMessage(Get(conversations, conversation_id),
                                role, content, sources))
            /\ history' = SaveHistory(conversations', history, fault)
            /\ call' = [op |-> "add_message", ret |-> TRUE, save |-> fault]
    /\ UNCHANGED <<files, contents, store, api_key, clients>>

\* ConversationManager.delete_conversation(conversation_id)
delete_conversation(conversation_id, fault) ==
    /\ Idle
    /\ IF conversation_id \in KnownIds
       THEN /\ conversations' =
                 SelectSeq(conversations, LAMBDA c : c.id # conversation_id)
            /\ history' = SaveHistory(conversations', history, fault)
            /\ call' = [op |-> "delete_conversation", ret |-> TRUE, save |-> fault]
       ELSE /\ call' = [op |-> "delete_conversation", ret |-> FALSE,
                        save |-> "skipped"]
            /\ UNCHANGED <<conversations, history>>
    /\ UNCHANGED <<files, contents, store, api_key, clients>>

\* ConversationManager.clear_all()
clear_all(fault) ==
    /\ Idle
    /\ conversations' = <<>>
    /\ history' = SaveHistory(conversations', history, fault)
    /\ call' = [op |-> "clear_all", save |-> fault]
    /\ UNCHANGED <<files, contents, store, api_key, clients>>

\* messages[start:] of Python, start being negative, zero or positive.
SliceFrom(messages, start) ==
    LET from == IF start < 0
                THEN (IF Len(messages) + start > 0 THEN Len(messages) + start ELSE 0)
                ELSE Min(start, Len(messages))
    IN  SubSeq(messages, from + 1, Len(messages))

\* Lines 230-241: the body of get_messages_for_context.
MessagesForContext(convs, conversation_id, max_messages) ==
    IF \A i \in 1..Len(convs) : convs[i].id # conversation_id THEN <<>>
    ELSE LET messages == SliceFrom(Get(convs, conversation_id).messages,
                                   0 - max_messages)
         IN  [i \in 1..Len(messages) |->
                [role |-> messages[i].role, content |-> messages[i].content]]

\* ConversationManager.get_messages_for_context(conversation_id, max_messages)
get_messages_for_context(conversation_id, max_messages) ==
    /\ Idle
    /\ call' = [op |-> "get_messages_for_context",
                conversation_id |-> conversation_id,
                max_messages |-> max_messages,
                ret |-> MessagesForContext(conversations, conversation_id,
                                           max_messages)]
    /\ UNCHANGED <<files, contents, store, services>>

-----------------------------------------------------------------------------
(* The lazily created backing clients: EmbeddingsManager.embeddings,          *)
(* LLMClient.client and VectorStoreManager.vectorstore                        *)

Managers == {"EmbeddingsManager", "LLMClient", "VectorStoreManager"}

\* A manager as its constructor leaves it: `_embeddings`, `_client` or
\* `_vectorstore` is None.  `constructions` counts the calls of the backing
\* client's constructor, `accesses` the reads of the property.
NewManager == [client |-> "None", constructions |-> 0, accesses |-> 0]

\* CreateClient without the test `is None`: the client is built at each access.
CreateClientEachTime(m) ==
    [m EXCEPT !.client = "created", !.constructions = @ + 1, !.accesses = @ + 1]

\* One read of the property on a manager whose client can be built: it is
\* built if it is None, and returned.
CreateClient(m) ==
    IF m.client = "None"
    THEN [m EXCEPT !.client = "created", !.constructions = @ + 1, !.accesses = @ + 1]
    ELSE [m EXCEPT !.accesses = @ + 1]

\* One read of the property that raises before the client is assigned.
FailedAccess(m) == [m EXCEPT !.accesses = @ + 1]

\* The property raises ValueError: the client is None and no API key is
\* configured (embeddings.py lines 48-54, llm.py lines 59-65).
MissingKey(m, key) == m.client = "None" /\ ~key

\* The deferred configuration of the API key.
configure_api_key ==
    /\ Idle
    /\ ~api_key
    /\ api_key' = TRUE
    /\ call' = [op |-> "configure_api_key"]
    /\ UNCHANGED <<files, contents, store, clients, conversations, history>>

\* EmbeddingsManager.embeddings (manager = "EmbeddingsManager") and
\* LLMClient.client (manager = "LLMClient"): read the property once.
client(manager) ==
    /\ Idle
    /\ manager \in {"EmbeddingsManager", "LLMClient"}
    /\ clients[manager].accesses < MaxAccesses
    /\ IF MissingKey(clients[manager], api_key)
       THEN /\ clients' = [clients EXCEPT ![manager] = FailedAccess(@)]
            /\ call' = [op |-> "client", manager |-> manager,
                        raised |-> "ValueError", key |-> api_key]
       ELSE /\ clients' = [clients EXCEPT ![manager] = CreateClient(@)]
            /\ call' = [op |-> "client", manager |-> manager,
                        raised |-> "none", key |-> api_key]
    /\ UNCHANGED <<files, contents, store, api_key, conversations, history>>

\* VectorStoreManager.vectorstore: when `_vectorstore` is None, the
\* embeddings of its embeddings manager are read (raising without API key),
\* then Chroma is built (`fault` is the error its constructor raises).
vectorstore(fault) ==
    LET vs == clients["VectorStoreManager"]
        em == clients["EmbeddingsManager"]
    IN  /\ Idle
        /\ vs.accesses < MaxAccesses
        /\ IF vs.client # "None"
           THEN /\ clients' = [clients EXCEPT !["VectorStoreManager"] = CreateClient(@)]
                /\ call' = [op |-> "client", manager |-> "VectorStoreManager",
                            raised |-> "none", key |-> api_key]
           ELSE IF MissingKey(em, api_key)
           THEN /\ clients' = [clients EXCEPT
                                  !["VectorStoreManager"] = FailedAccess(@),
                                  !["EmbeddingsManager"] = FailedAccess(@)]
                /\ call' = [op |-> "client", manager |-> "VectorStoreManager",
                            raised |-> "ValueError", key |-> api_key]
           ELSE IF fault # "none"
           THEN /\ clients' = [clients EXCEPT
                                  !["VectorStoreManager"] = FailedAccess(@),
                                  !["EmbeddingsManager"] = CreateClient(@)]
                /\ call' = [op |-> "client", manager |-> "VectorStoreManager",
                            raised |-> fault, key |-> api_key]
           ELSE /\ clients' = [clients EXCEPT
                                  !["VectorStoreManager"] = CreateClient(@),
                                  !["EmbeddingsManager"] = CreateClient(@)]
                /\ call' = [op |-> "client", manager |-> "VectorStoreManager",
                            raised |-> "none", key |-> api_key]
        /\ UNCHANGED <<files, contents, store, api_key, conversations, history>>

-----------------------------------------------------------------------------

Init ==
    /\ files = {}
    /\ contents = [name \in {} |-> "x"]
    /\ store = <<>>
    /\ call = NoCall
    /\ api_key = FALSE
    /\ clients = [m \in Managers |-> NewManager]
    /\ conversations = LoadHistory(NoHistoryFile)
    /\ history = NoHistoryFile

ProcessFaults ==
    ReadFaults \cup ExtractFaults \cup CleanFaults \cup SplitFaults \cup StoreFaults

\* The runs of process_file: every text with no stage raising, and every
\* error on a text that passes every gate (on another text the run ends as
\* it does with the errors of the stages it reaches).
ProcessRuns ==
    {[fault |-> "none", raw |-> t.raw, cleaned_len |-> t.cleaned_len, n |-> t.n] :
        t \in Texts}
    \cup {[fault |-> f, raw |-> t.raw, cleaned_len |-> t.cleaned_len, n |-> t.n] :
            f \in ProcessFaults,
            t \in {u \in Texts : /\ u.raw = "text"
                                 /\ u.cleaned_len >= MIN_CLEANED_LENGTH
                                 /\ u.n > 0}}

\* What the generation does in a blocking query: it raises, or it answers.
Generations ==
    {[fault |-> f, answer |-> ""] : f \in LLMFaults}
    \cup {[fault |-> "none", answer |-> a] : a \in Answers}

\* The corpus side: the files, the ingestion pipeline and every operation of
\* the vector store.
Next ==
    \/ Return
    \/ \E upload \in Uploads : save_file(upload.file_content, upload.filename)
    \/ \E n \in 1..MaxChunks, src \in FileNames, stamped \in BOOLEAN,
          fault \in {"none"} \cup StoreFaults :
            add_documents(SplitText(n, src),
                          IF stamped THEN src ELSE NoSourceId, fault)
    \/ \E source_id \in FileNames, fault \in {"none"} \cup StoreFaults :
            delete_by_source(source_id, fault)
    \/ \E fault \in {"none"} \cup StoreFaults : clear(fault)
    \/ \E fault \in {"none"} \cup StoreFaults : get_all_sources(fault)
    \/ \E fault \in {"none"} \cup StoreFaults : get_document_count(fault)
    \/ \E n \in 0..MaxChunks, source_name \in FileNames : split_text(n, source_name)
    \/ \E name \in FileNames, run \in ProcessRuns :
            process_file(name, run.fault, run.raw, run.cleaned_len, run.n)

Spec == Init /\ [][Next]_vars

\* The runs of process_file inside reindex_all, one of each kind the loop can
\* tell apart: a file stopped at each gate, a file indexed in 1..MaxChunks
\* chunks, and a file on which a stage raises.
ReindexRuns ==
    {r \in ProcessRuns :
        /\ r.raw # "blank"
        /\ r.cleaned_len <= MIN_CLEANED_LENGTH
        /\ r.cleaned_len = MIN_CLEANED_LENGTH - 1 => r.n = 1
        /\ r.fault # "none" => r.n = 1}

\* The documents view: the files are uploaded, indexed, removed and
\* reindexed.
NextDocs ==
    \/ Return
    \/ \E upload \in Uploads : save_file(upload.file_content, upload.filename)
    \/ \E name \in FileNames, run \in ProcessRuns :
            process_file(name, run.fault, run.raw, run.cleaned_len, run.n)
    \/ \E source_id \in FileNames, store_fault \in {"none"} \cup StoreFaults,
          file_fault \in {"none"} \cup FileFaults :
            remove_document(source_id, store_fault, file_fault)
    \/ \E clear_fault \in {"none"} \cup StoreFaults, listing \in Listings(files) :
          \E runs \in [1..Len(listing) -> ReindexRuns] :
            reindex_all(clear_fault, listing, runs)

SpecDocs == Init /\ [][NextDocs]_vars

\* The names a file of the model may be stored under.
StoredNames ==
    {SanitizeFilename(n) : n \in UploadNames}
    \cup {Numbered(SanitizeFilename(n))[c] : n \in UploadNames, c \in 1..MaxCounter}

\* The file storage: any content uploaded under any name, any file deleted.
NextFiles ==
    \/ Return
    \/ \E file_content \in FileContents, filename \in UploadNames :
            save_file(file_content, filename)
    \/ \E filename \in StoredNames, fault \in {"none"} \cup FileFaults :
            delete_file(filename, fault)

SpecFiles == Init /\ [][NextFiles]_vars

\* The messages the chat adds: the user's questions, without sources, and
\* the assistant's answers.
ChatMessages ==
    {[role |-> "user", content |-> c, sources |-> <<>>] : c \in UserContents}
    \cup {[role |-> "assistant", content |-> c, sources |-> <<"a.txt">>] :
            c \in AssistantContents}

\* The conversations of the chat, the history file being written without
\* error.
NextConv ==
    \/ Return
    \/ ConversationManager
    \/ \E id \in ConversationIds : create_conversation(id, "none")
    \/ \E id \in ConversationIds, m \in ChatMessages :
            add_message(id, m.role, m.content, m.sources, "none")
    \/ \E id \in ConversationIds : delete_conversation(id, "none")
    \/ clear_all("none")
    \/ \E id \in ConversationIds, max_messages \in 0..MaxMessages + 1 :
            get_messages_for_context(id, max_messages)

SpecConv == Init /\ [][NextConv]_vars

\* The messages of the history: short ones, with and without sources.
HistoryMessages ==
    {[role |-> "user", content |-> Letters(3), sources |-> <<>>],
     [role |-> "assistant", content |-> Letters(2), sources |-> <<"a.txt">>]}

\* The history file, the writes of which may fail.
NextHistory ==
    \/ Return
    \/ ConversationManager
    \/ \E fault \in {"none"} \cup SaveFaults :
        \/ \E id \in ConversationIds : create_conversation(id, fault)
        \/ \E id \in ConversationIds, m \in HistoryMessages :
                add_message(id, m.role, m.content, m.sources, fault)
        \/ \E id \in ConversationIds : delete_conversation(id, fault)
        \/ clear_all(fault)

SpecHistory == Init /\ [][NextHistory]_vars

\* The functions on texts: the cleaner and the summary of the sources.
NextText ==
    \/ Return
    \/ \E text \in CleanerTexts : clean(text)
    \/ \E n \in 0..MaxSegments : \E documents \in [1..n -> SummaryDocs] :
            get_sources_summary(documents)

SpecText == Init /\ [][NextText]_vars

\* The backing clients of the managers, read in any order while the API key
\* is or is not yet configured.
NextClients ==
    \/ Return
    \/ configure_api_key
    \/ \E manager \in {"EmbeddingsManager", "LLMClient"} : client(manager)
    \/ \E fault \in {"none", "StoreBackendError"} : vectorstore(fault)

SpecClients == Init /\ [][NextClients]_vars

\* The question side: a corpus fed by process_file, questioned by query and
\* query_stream.
NextRag ==
    \/ Return
    \/ \E upload \in Uploads : save_file(upload.file_content, upload.filename)
    \/ \E name \in FileNames, run \in ProcessRuns :
            process_file(name, run.fault, run.raw, run.cleaned_len, run.n)
    \/ \E k \in Ks :
            \/ \E search_fault \in StoreFaults : query(k, search_fault, "none", "")
            \/ \E g \in Generations : query(k, "none", g.fault, g.answer)
    \/ \E k \in Ks, search_fault \in {"none"} \cup StoreFaults :
            query_stream(k, search_fault)
    \/ \E empties \in 0..1, ending \in BOOLEAN,
          llm_fault \in {"none"} \cup LLMFaults :
            query_stream_next(empties, ending, llm_fault)
    \/ query_stream_close
    \/ \E fault \in {"none"} \cup StoreFaults : is_ready(fault)

SpecRag == Init /\ [][NextRag]_vars

-----------------------------------------------------------------------------
(* Properties of the RAG chain, checked under SpecRag *)

IsRag == call.op \in {"query", "query_stream"}

\* The positions of `results` whose distance is within the threshold.
Within(results) ==
    {i \in 1..Len(results) : results[i].score <= MIN_RELEVANCE_SCORE}

\* docs are the documents of `results` at the positions `keep`, in the order
\* of `results`.
IsSelection(docs, results, keep) ==
    /\ Len(docs) = Cardinality(keep)
    /\ \A i \in keep :
         docs[Cardinality({j \in keep : j <= i})] = results[i].doc

\* The concatenation of a sequence of fragments, first to last.
ConcatOf(fragments) ==
    LET F[i \in 0..Len(fragments)] ==
            IF i = 0 THEN "" ELSE F[i - 1] \o fragments[i]
    IN  F[Len(fragments)]

\* C1: when the search returns an empty list, query and query_stream end
\* with the refusal message as answer, no source and has_context = FALSE,
\* the generation client is called neither by invoke nor by stream, and
\* query_stream yields exactly one fragment, the refusal message.
C1_EmptySearchIsRefused ==
    (IsRag /\ call.raised = "none" /\ call.results = <<>>) =>
        /\ call.invoke_calls = 0
        /\ call.stream_calls = 0
        /\ call.produced = <<>>
        /\ call.pc \in {"retrieved", "refusing", "done", "closed"}
        /\ call.op = "query" => call.pc = "done"
        /\ call.pc = "retrieved" => call.yielded = <<>>
        /\ (call.op = "query_stream" /\ call.pc # "retrieved")
              => call.yielded = <<NO_CONTEXT_MESSAGE>>
        /\ call.pc = "done" =>
              call.response = [answer |-> NO_CONTEXT_MESSAGE,
                               sources |-> <<>>, has_context |-> FALSE]

C1_Witness ==
    /\ call.op = "query_stream"
    /\ call.pc = "done"
    /\ call.results = <<>>
    /\ call.yielded = <<NO_CONTEXT_MESSAGE>>
    /\ ~call.response.has_context

\* C2: when at least one result of the search has a distance <= 0.30, the
\* sources of query are exactly the results whose distance is <= 0.30 (0.30
\* itself is kept, anything larger dropped), in the order of the search, and
\* has_context is TRUE.
C2_SourcesAreResultsWithinThreshold ==
    (call.op = "query" /\ call.pc = "done" /\ Within(call.results) # {}) =>
        /\ IsSelection(call.response.sources, call.results, Within(call.results))
        /\ call.response.has_context

C2_Witness ==
    /\ call.op = "query"
    /\ call.pc = "done"
    /\ Len(call.results) = 2
    /\ call.results[1].score = MIN_RELEVANCE_SCORE
    /\ call.results[2].score > MIN_RELEVANCE_SCORE
    /\ Len(call.response.sources) = 1

\* C3: when the search returns a non-empty list in which no result has a
\* distance <= 0.30, query and query_stream take the first k raw results as
\* sources, in the order of the search, report has_context = TRUE and call
\* the generation; no refusal is produced.
C3_FallbackToFirstK ==
    (IsRag /\ call.results # <<>> /\ Within(call.results) = {}) =>
        LET first == 1..Min(call.k_used, Len(call.results))
        IN  /\ IsSelection(call.relevant_docs, call.results, first)
            /\ call.pc # "refusing"
            /\ \A i \in 1..Len(call.yielded) : call.yielded[i] # NO_CONTEXT_MESSAGE
            /\ call.op = "query" => call.invoke_calls = 1
            /\ (call.op = "query_stream" /\ call.pc # "retrieved")
                  => call.stream_calls = 1
            /\ call.pc = "done" =>
                  /\ IsSelection(call.response.sources, call.results, first)
                  /\ call.response.has_context
                  /\ call.response.answer # NO_CONTEXT_MESSAGE

C3_Witness ==
    /\ call.op = "query_stream"
    /\ call.pc = "done"
    /\ Len(call.results) = 2
    /\ Within(call.results) = {}
    /\ Len(call.response.sources) = 2
    /\ call.response.has_context

\* C4: query_stream yields exactly the fragments the generation client's
\* stream produces, in the same order, each one forwarded to the caller
\* before the next one is requested, and the response returned when the
\* stream is exhausted has the concatenation of the yielded fragments as
\* answer.
C4_StreamForwardsEveryFragment ==
    (call.op = "query_stream" /\ call.stream_calls > 0) =>
        /\ call.yielded = call.produced
        /\ (call.pc = "done" =>
              /\ call.response.answer = ConcatOf(call.yielded)
              /\ call.response.has_context)

C4_Witness ==
    /\ call.op = "query_stream"
    /\ call.pc = "done"
    /\ Len(call.yielded) = MaxFrags
    /\ call.yielded[1] # call.yielded[2]
    /\ call.response.answer = ConcatOf(call.produced)

-----------------------------------------------------------------------------
(* Properties of the ingestion pipeline and of the vector store *)

\* The records of `st` that do not come from the source s, in order.
WithoutSource(st, s) ==
    SelectSeq(st, LAMBDA r : ~("source_id" \in DOMAIN r /\ r["source_id"] = s))

\* The last n records of `st`.
LastRecords(st, n) == {st[i] : i \in (Len(st) - n + 1)..Len(st)}

\* The errors of authentication and of the backends.
AuthOrBackend == AuthErrors \cup BackendErrors

\* C5, as claimed: after any sequence of add_documents, delete_by_source and
\* clear calls, every record of the store has a source_id in its metadata,
\* however add_documents was called.
C5_EveryRecordHasSourceId ==
    \A i \in 1..Len(store) : "source_id" \in DOMAIN store[i]

\* C5, amended: the records inserted by a call of add_documents that was
\* given a non-empty source_id all carry that source_id (so do those
\* inserted by process_file, which passes the file's name); a call without
\* source_id inserts the segments with the metadata they came with.
C5_StampedWhenSourceIdGiven ==
    /\ (call.op = "add_documents" /\ call.raised = "none"
            /\ call.source_id # NoSourceId) =>
          /\ call.ret <= Len(store)
          /\ \A r \in LastRecords(store, call.ret) :
                "source_id" \in DOMAIN r /\ r["source_id"] = call.source_id
    /\ (call.op = "process_file" /\ call.ret.success) =>
          /\ call.ret.chunks_count <= Len(store)
          /\ \A r \in LastRecords(store, call.ret.chunks_count) :
                "source_id" \in DOMAIN r /\ r["source_id"] = call.name

C5_Witness ==
    /\ call.op = "add_documents"
    /\ call.raised = "none"
    /\ call.source_id # NoSourceId
    /\ call.ret = 2
    /\ \A i \in 1..Len(store) : "source_id" \in DOMAIN store[i]

\* C6: re-ingestion replaces, never patches: when process_file succeeds on a
\* file whose source_id already has records in the store, the store then
\* holds only the segments of this run for that source_id: as many records
\* as total_chunks, each chunk_index 0..total_chunks-1 exactly once.
C6_ReingestionReplaces ==
    [][(/\ call'.op = "process_file"
        /\ call'.ret.success
        /\ \E i \in 1..Len(store) :
              "source_id" \in DOMAIN store[i] /\ store[i]["source_id"] = call'.name)
       => LET mine == {i \in 1..Len(store') :
                          /\ "source_id" \in DOMAIN store'[i]
                          /\ store'[i]["source_id"] = call'.name}
              total == call'.ret.chunks_count
          IN  /\ Cardinality(mine) = total
              /\ \A c \in 0..total - 1 :
                    Cardinality({i \in mine :
                        /\ store'[i]["chunk_index"] = c
                        /\ store'[i]["total_chunks"] = total}) = 1]_vars

\* The gate at which a text stops process_file, "passed" when at none: the
\* extracted text is empty or blank, then the cleaned text has fewer than 50
\* characters, then the list of chunks is empty.
FailingGate(text) ==
    CASE text.raw \in {"empty", "blank"} -> "empty"
      [] text.raw = "text" /\ text.cleaned_len < 50 -> "too_short"
      [] text.raw = "text" /\ text.cleaned_len >= 50 /\ text.n = 0 -> "no_chunks"
      [] OTHER -> "passed"

\* C7: process_file applies its gates in order and, at the first one that
\* fails, returns success = FALSE and chunks_count = 0 with a message that
\* names that cause, the vector store left unchanged.
C7_GatesShortCircuit ==
    [][(/\ call'.op = "process_file"
        /\ call'.fault = "none"
        /\ FailingGate(call'.text) # "passed")
       => /\ call'.ret = [success |-> FALSE, source_id |-> call'.name,
                          chunks_count |-> 0,
                          message |-> FailingGate(call'.text)]
          /\ call'.raised = "none"
          /\ store' = store]_vars

C7_Witness ==
    /\ call.op = "process_file"
    /\ call.fault = "none"
    /\ call.text.raw = "text"
    /\ call.text.cleaned_len = MIN_CLEANED_LENGTH - 1
    /\ call.text.n > 0
    /\ call.ret.message = "too_short"
    /\ ~call.ret.success
    /\ store # <<>>

\* C8: process_file never raises: an exception raised while reading,
\* extracting, cleaning, chunking or inserting becomes an outcome with
\* success = FALSE, chunks_count = 0 and the file's name as source_id.
C8_ProcessFileNeverRaises ==
    call.op = "process_file" =>
        /\ call.raised = "none"
        /\ call.ret.source_id = call.name
        /\ call.fault # "none" =>
              /\ ~call.ret.success
              /\ call.ret.chunks_count = 0

C8_Witness ==
    /\ call.op = "process_file"
    /\ call.fault = "StoreBackendError"
    /\ call.raised = "none"
    /\ ~call.ret.success

\* C9, as claimed: an authentication or backend error raised by the
\* embedding client, the generation client or the vector store inside
\* query, query_stream or process_file leaves that operation unchanged.
C9_ErrorsPropagate ==
    (/\ call.op \in {"query", "query_stream", "process_file"}
     /\ call.fault \in AuthOrBackend)
        => call.raised = call.fault

\* C9, amended: such an error leaves query and query_stream unchanged, no
\* response being returned; process_file does not let it out and returns a
\* failure outcome (success = FALSE, chunks_count = 0) instead.
C9_ErrorsPropagateFromQueries ==
    /\ (IsRag /\ call.fault \in AuthOrBackend) =>
          /\ call.raised = call.fault
          /\ call.pc = "failed"
          /\ call.response = NoResponse
    /\ (call.op = "process_file" /\ call.fault \in AuthOrBackend) =>
          /\ call.raised = "none"
          /\ ~call.ret.success
          /\ call.ret.chunks_count = 0

C9_Witness ==
    /\ call.op = "query_stream"
    /\ call.fault = "GenerationBackendError"
    /\ call.raised = "GenerationBackendError"
    /\ Len(call.yielded) > 0

\* C10: delete_by_source(s) removes every record whose source_id is s and no
\* other record; it returns TRUE when at least one record matched and FALSE,
\* without raising, when none did (an empty collection included).
C10_DeleteBySourceIsExact ==
    [][(call'.op = "delete_by_source" /\ call'.fault = "none")
       => /\ call'.raised = "none"
          /\ store' = WithoutSource(store, call'.source_id)
          /\ call'.ret = (\E i \in 1..Len(store) :
                            /\ "source_id" \in DOMAIN store[i]
                            /\ store[i]["source_id"] = call'.source_id)]_vars

C10_Witness ==
    /\ call.op = "delete_by_source"
    /\ call.raised = "none"
    /\ call.ret
    /\ store # <<>>

Occurrences(sources, s) ==
    Cardinality({i \in 1..Len(sources) : sources[i] = s})

\* C17: when the store fails, get_document_count returns 0 and
\* get_all_sources an empty list, neither raising; neither call changes the
\* collection; on a healthy store get_all_sources returns each source_id
\* present in the collection exactly once and nothing else.
C17_IntrospectionIsBestEffort ==
    [][(call'.op \in {"get_document_count", "get_all_sources"})
       => /\ store' = store
          /\ call'.raised = "none"
          /\ (call'.op = "get_document_count" /\ call'.fault # "none")
                => call'.ret = 0
          /\ (call'.op = "get_all_sources" /\ call'.fault # "none")
                => call'.ret = <<>>
          /\ (call'.op = "get_all_sources" /\ call'.fault = "none")
                => \A s \in FileNames :
                      Occurrences(call'.ret, s) =
                        IF \E i \in 1..Len(store) :
                              /\ "source_id" \in DOMAIN store[i]
                              /\ store[i]["source_id"] = s
                        THEN 1 ELSE 0]_vars

C17_Witness ==
    /\ call.op = "get_all_sources"
    /\ call.fault = "none"
    /\ Len(store) = 2
    /\ \A i \in 1..2 : "source_id" \in DOMAIN store[i]
    /\ store[1]["source_id"] = store[2]["source_id"]
    /\ Len(call.ret) = 1

\* C18: the documents _split_text returns all carry, as total_chunks, the
\* number of documents returned, and their chunk_index values are
\* 0..total_chunks-1 in the order of the list, without gap or repeat.
C18_ChunksAreNumberedInOrder ==
    call.op = "_split_text" =>
        /\ Len(call.ret) = call.chunks
        /\ \A i \in 1..Len(call.ret) :
              /\ call.ret[i]["total_chunks"] = Len(call.ret)
              /\ call.ret[i]["chunk_index"] = i - 1
              /\ call.ret[i]["source"] = call.source_name

C18_Witness ==
    /\ call.op = "_split_text"
    /\ Len(call.ret) = MaxChunks
    /\ call.ret[MaxChunks]["chunk_index"] = MaxChunks - 1

\* C16, as claimed: is_ready() returns TRUE if and only if the vector store
\* holds at least one record.
C16_ReadyIffStoreNotEmpty ==
    call.op = "is_ready" => (call.ret <=> store # <<>>)

\* C16, amended: is_ready() returns TRUE if and only if the vector store
\* holds at least one record and its count can be read; when the count of
\* the collection fails, is_ready() returns FALSE whatever the store holds,
\* without raising.
C16_ReadyIffCountPositive ==
    call.op = "is_ready" =>
        /\ call.raised = "none"
        /\ call.ret <=> (call.fault = "none" /\ store # <<>>)

C16_Witness ==
    /\ call.op = "is_ready"
    /\ call.fault # "none"
    /\ store # <<>>
    /\ call.ret = FALSE

\* C19: query and query_stream pass to search_with_scores the k their caller
\* supplies, whatever it is; retriever_k is used only when none is supplied.
C19_SuppliedKIsPassed ==
    IsRag =>
        call.k_used = (IF call.k = NoK THEN retriever_k ELSE call.k[1])

\* C20: when the caller of query_stream stops consuming the fragments, after
\* any number of them, no error is raised to it and the generation client is
\* asked for no further fragment: every fragment the client produced was
\* yielded to the caller, one per resumption, and nothing happens to an
\* abandoned stream.
C20_AbandonedStreamIsQuiet ==
    [][/\ (call'.op = "query_stream" /\ call'.pc = "closed") =>
             /\ call'.raised = "none"
             /\ call'.fault = "none"
             /\ call'.response = NoResponse
             /\ call'.produced = call.produced
             /\ call'.yielded = call.yielded
             /\ call'.stream_calls = call.stream_calls
             /\ Len(call'.produced) <= Len(call'.yielded)
       /\ (call.op = "query_stream" /\ call'.op = "query_stream"
              /\ call'.produced # call.produced) =>
             /\ Len(call'.produced) = Len(call.produced) + 1
             /\ call'.yielded =
                  Append(call.yielded, call'.produced[Len(call'.produced)])
       /\ (call.op = "query_stream" /\ call.pc = "closed") => call' = NoCall]_vars

C20_Witness ==
    /\ call.op = "query_stream"
    /\ call.pc = "closed"
    /\ Len(call.yielded) = 1
    /\ call.stream_calls = 1
    /\ call.raised = "none"

-----------------------------------------------------------------------------
(* Properties of remove_document and reindex_all, checked under SpecDocs *)

\* The number of records the successful outcomes of `results` report.
ChunksReported(results) ==
    LET F[i \in 0..Len(results)] ==
            IF i = 0 THEN 0
            ELSE F[i - 1] + (IF results[i].success THEN results[i].chunks_count ELSE 0)
    IN  F[Len(results)]

\* C12: after reindex_all returns, the store holds only the records this run
\* inserted (as many as its successful outcomes report): no record from
\* before the call is left.
C12_ReindexLeavesOnlyItsRecords ==
    call.op = "reindex_all" => Len(store) = ChunksReported(call.ret)

C14_RemovedWhenTrue ==
    (call.op = "remove_document" /\ call.ret) =>
        /\ \A i \in 1..Len(store) :
              ~("source_id" \in DOMAIN store[i]
                    /\ store[i]["source_id"] = call.source_id)
        /\ call.source_id \notin files

\* C15: when the deletion from the vector store raises inside
\* remove_document, the call returns FALSE without raising, delete_file is
\* not attempted, and the records and the file of the document remain.
C15_StoreErrorLeavesFile ==
    [][(call'.op = "remove_document" /\ call'.fault # "none")
       => /\ call'.ret = FALSE
          /\ call'.raised = "none"
          /\ call'.delete_file_calls = 0
          /\ files' = files
          /\ store' = store]_vars

C15_Witness ==
    /\ call.op = "remove_document"
    /\ call.fault # "none"
    /\ call.ret = FALSE
    /\ call.source_id \in files
    /\ \E i \in 1..Len(store) :
          "source_id" \in DOMAIN store[i] /\ store[i]["source_id"] = call.source_id

-----------------------------------------------------------------------------
(* Properties of the backing clients, checked under SpecClients *)

\* C21: the backing client of a manager is created lazily and memoized: a
\* manager that was never read has no client; a read without API key raises
\* and leaves the manager without client; a read that returns leaves it with
\* one; and the client's constructor runs at most once per manager, however
\* many times the property is read.
C21_ClientIsLazyAndMemoized ==
    /\ \A m \in Managers :
          /\ clients[m].constructions <= 1
          /\ clients[m].client = "created" <=> clients[m].constructions = 1
          /\ clients[m].accesses = 0 => clients[m].client = "None"
    /\ call.op = "client" =>
          /\ (call.raised # "none") => clients[call.manager].client = "None"
          /\ (call.raised = "none") => clients[call.manager].client = "created"
          /\ (call.raised = "ValueError") => ~call.key
          /\ ~call.key => call.raised = "ValueError"

C21_Witness ==
    /\ call.op = "client"
    /\ call.raised = "none"
    /\ \A m \in Managers :
          /\ clients[m].accesses >= 2
          /\ clients[m].constructions = 1

-----------------------------------------------------------------------------
(* Properties that relate the operations to one another *)

\* The number of calls a RAG call made to the generation client.
GenerationCalls(c) == c.invoke_calls + c.stream_calls

\* C28: for every response query or query_stream produces, has_context is
\* TRUE if and only if the sources are not empty, and if and only if the
\* generation client was called exactly once; when has_context is FALSE the
\* answer is the refusal message and the generation client was not called.
C28_ContextIffSourcesIffGenerated ==
    (IsRag /\ call.pc = "done") =>
        /\ call.response.has_context <=> call.response.sources # <<>>
        /\ call.response.has_context <=> GenerationCalls(call) = 1
        /\ ~call.response.has_context =>
              /\ call.response.answer = NO_CONTEXT_MESSAGE
              /\ GenerationCalls(call) = 0

C28_Witness ==
    /\ call.op = "query_stream"
    /\ call.pc = "done"
    /\ call.response.has_context
    /\ call.response.sources # <<>>
    /\ call.stream_calls = 1
    /\ call.invoke_calls = 0

\* C29: the blocking and the streaming paths decide alike: a fully consumed
\* query_stream returns the response query returns for the same k and the
\* same search results when the blocking answer is the concatenation of the
\* streamed fragments.
C29_StreamAgreesWithQuery ==
    (call.op = "query_stream" /\ call.pc = "done") =>
        call.response =
            QueryOutcome(call.k, call.results, "none",
                         ConcatOf(call.produced)).response

C29_Witness ==
    /\ call.op = "query_stream"
    /\ call.pc = "done"
    /\ Len(call.produced) = 2
    /\ ConcatOf(call.produced) \in Answers
    /\ Len(call.results) = 2
    /\ Len(call.response.sources) = 1

\* C30: after any sequence of process_file, remove_document and reindex_all
\* calls, whatever fails in them, every source_id present in the store is the
\* name of a file of the storage.
C30_IndexedSourcesHaveFiles ==
    \A i \in 1..Len(store) :
        "source_id" \in DOMAIN store[i] => store[i]["source_id"] \in files

C30_Witness ==
    /\ call.op = "remove_document"
    /\ call.ret
    /\ call.source_id \notin files
    /\ store # <<>>

-----------------------------------------------------------------------------
(* Properties of the functions on texts, checked under SpecText *)

\* The positions of `documents` where a source is seen for the first time.
FirstSeen(documents) ==
    {i \in 1..Len(documents) :
        \A j \in 1..i - 1 :
            SourceIdOrUnknown(documents[j]) # SourceIdOrUnknown(documents[i])}

\* C22: get_sources_summary returns one entry per distinct source_id of its
\* input (the segments without source_id counting as the source "Inconnu"),
\* in the order the sources are first seen, each with the name of the source
\* and a preview of its first segment: the whole content when it has at most
\* 200 characters, else its first 200 characters followed by "...".
C22_SummaryIsFirstSeenPreview ==
    call.op = "get_sources_summary" =>
        LET first == FirstSeen(call.documents)
        IN  /\ Len(call.ret) = Cardinality(first)
            /\ \A i \in first :
                  LET entry == call.ret[Cardinality({j \in first : j <= i})]
                      content == call.documents[i].page_content
                  IN  /\ entry.name = SourceIdOrUnknown(call.documents[i])
                      /\ entry.preview.of = content.text
                      /\ content.len <= 200 =>
                            /\ entry.preview.len = content.len
                            /\ entry.preview.suffix = ""
                      /\ content.len > 200 =>
                            /\ entry.preview.len = 200
                            /\ entry.preview.suffix = "..."

C22_Witness ==
    /\ call.op = "get_sources_summary"
    /\ Len(call.documents) = 3
    /\ Len(call.ret) = 2
    /\ call.ret[1].preview.suffix = "..."
    /\ call.ret[2].preview.len = 200
    /\ call.ret[2].preview.suffix = ""

\* `text` holds the characters `part` in a row somewhere.
Contains(text, part) ==
    \E i \in 0..Len(text) - Len(part) :
        SubSeq(text, i + 1, i + Len(part)) = part

\* `text` holds a paragraph break: a line of three letters, three newlines
\* or more, a line of three letters.
ParagraphBreaks(text) ==
    {b \in [from : 1..Len(text), to : 1..Len(text)] :
        /\ b.to - b.from >= 2
        /\ \A i \in b.from..b.to : text[i] = "\n"
        /\ b.from > 3
        /\ b.to + 3 <= Len(text)
        /\ \A i \in 1..3 : text[b.from - i] = "a" /\ text[b.to + i] = "a"}

\* C23: TextCleaner.clean turns a run of three newlines or more into exactly
\* two newlines: a text with a paragraph break comes out with the two lines
\* separated by a double newline, and with no run of three newlines.
C23_ParagraphBreaksAreKept ==
    (call.op = "clean" /\ ParagraphBreaks(call.text) # {}) =>
        /\ Contains(call.ret, <<"a", "\n", "\n", "a">>)
        /\ ~Contains(call.ret, <<"\n", "\n", "\n">>)

-----------------------------------------------------------------------------
(* Properties of the conversations *)

\* The operations that write the history file.
IsSaving == "save" \in DOMAIN call /\ call.save # "skipped"

\* The ids and, per id, the messages of the conversations `convs`.
MessagesById(convs) ==
    {<<convs[i].id, convs[i].messages>> : i \in 1..Len(convs)}

\* A manager constructed now would load the ids and the messages in memory.
Reloads == MessagesById(LoadHistory(history)) = MessagesById(conversations)

\* C24 as stated: after every create_conversation, add_message,
\* delete_conversation and clear_all, a manager constructed on the history
\* file loads the conversation ids in memory, each with the same messages
\* (role, content, sources) in the same order.
C24_HistoryAlwaysReloads == IsSaving => Reloads

\* C24 amended: that holds after each of these operations when its write of
\* the history file succeeded.  When open() fails the file is left as it was,
\* when json.dump fails it is left partial and nothing can be loaded from it;
\* either way the operation has taken effect in memory.
C24_WrittenHistoryReloads ==
    /\ (IsSaving /\ call.save = "none") => Reloads
    /\ (IsSaving /\ call.save = "DumpError") => LoadHistory(history) = <<>>

C24_Witness ==
    /\ call.op = "add_message"
    /\ call.save = "none"
    /\ Len(conversations) = 2
    /\ Len(conversations[2].messages) = 2
    /\ conversations[2].messages[1].role = "user"
    /\ conversations[2].messages[2].sources = <<"a.txt">>
    /\ Reloads

\* The title the claim gives a conversation of which the first user message
\* is `content`.
ClaimedTitle(content) ==
    IF Len(content) > 50
    THEN SubSeq(content, 1, 50) \o <<".", ".", ".">>
    ELSE content

\* C25: the title of a conversation that holds a user message is derived
\* from its first user message: its first 50 characters, followed by "..."
\* when the message is longer, so at most 53 characters.
C25_TitleIsFirstUserMessage ==
    \A i \in 1..Len(conversations) :
        LET messages == conversations[i].messages
            users == {j \in 1..Len(messages) : messages[j].role = "user"}
        IN  users # {} =>
                LET first == CHOOSE j \in users : \A k \in users : j <= k
                IN  /\ conversations[i].title = ClaimedTitle(messages[first].content)
                    /\ Len(conversations[i].title) <= 53

\* C26: get_messages_for_context(id, max_messages) returns at most
\* max_messages messages, the last ones of the conversation in their order
\* (all of them when it has fewer), and nothing for an unknown id.
C26_ContextIsLastMessages ==
    call.op = "get_messages_for_context" =>
        IF call.conversation_id \notin KnownIds THEN call.ret = <<>>
        ELSE LET messages == Get(conversations, call.conversation_id).messages
                 n == Min(call.max_messages, Len(messages))
             IN  /\ Len(call.ret) <= call.max_messages
                 /\ Len(call.ret) = n
                 /\ \A i \in 1..n :
                      LET m == messages[Len(messages) - n + i]
                      IN  call.ret[i] = [role |-> m.role, content |-> m.content]

-----------------------------------------------------------------------------
(* Properties of the file storage, checked under SpecFiles *)

\* C27: after any sequence of save_file and delete_file calls no two files
\* of the storage have the same content.
C27_NoTwoFilesAlike ==
    \A n1, n2 \in files : n1 # n2 => contents[n1] # contents[n2]

=============================================================================
